---------------------------- MODULE Spec2Model ----------------------------
(***************************************************************************)
(* A model of the sherdog scraper (resources/lib/sherdog.py) and of the    *)
(* video listing of an event (resources/lib/navigation.py, getEvent).      *)
(*                                                                         *)
(* Text is a sequence of one-character strings, so that the string         *)
(* operations of the code (split, rstrip, lstrip, rsplit, splitext, int,   *)
(* "%.2d", sorted) are computed character by character.  Python's None is  *)
(* the value None below, which is no text.                                 *)
(***************************************************************************)
EXTENDS Integers, Sequences, FiniteSets, TLC

VARIABLES
    pc,              \* position of the running call
    outcome,         \* "none", "returned" or "raised"
    err,             \* the exception that ended the call, "" if none
    caller,          \* the function getHtml returns to
    url,             \* getHtml: the url being fetched
    conn,            \* getHtml: "none", "open" or "closed" (client)
    eventDetails,    \* getEventDetails: the dict being built
    tempDate,        \* getEventDetails: the date text (line 94)
    table,           \* the fight-card table / the fighter-profile table
    rows,            \* table.findAll('tr')
    rowcount,        \* index of the row the loop is at
    fighterDetails,  \* getFighterDetails: the dict being built
    picture,         \* what soup.find(fighter_picture) gives in this page
    event,           \* getEvent: dbops.getEvent(eventID)
    libraryList,     \* getEvent: library.loadLibrary()
    entryIndex,      \* getEvent: how many entries of the library the loop has passed
    cleanFilenames,  \* getEvent: the addon setting "cleanFilenames"
    art,             \* getEvent: which cached artwork/description files exist
    walk,            \* getEvent: os.walk(x['path']) of the entry being processed
    fileList,        \* getEvent: fileList of the entry being processed
    listing,         \* the links addLink has added, in order
    played           \* the paths handed to xbmc.Player().play, in order

vars == <<pc, outcome, err, caller, url, conn, eventDetails, tempDate, table, rows,
          rowcount, fighterDetails, picture, event, libraryList, entryIndex,
          cleanFilenames, art, walk, fileList, listing, played>>

fetchVars == <<caller, url, conn>>
eventVars == <<eventDetails, tempDate>>
tableVars == <<table, rows, rowcount>>
fighterVars == <<fighterDetails, picture>>
navVars == <<event, libraryList, entryIndex, cleanFilenames, art, walk, fileList, listing, played>>

----------------------------------------------------------------------------
(* Bounds of the model *)

\* most rows after the header row of the fight-card table, and most rows of
\* the fighter-profile table
MaxRows == 3
\* most files in the directory tree of one library entry
MaxFiles == 3
\* most entries in the library
MaxEntries == 2

----------------------------------------------------------------------------
(* Python values and string operations *)

None == <<"None">>

Min(S) == CHOOSE x \in S : \A y \in S : x <= y
Max(S) == CHOOSE x \in S : \A y \in S : x >= y

\* dict[key] = value
Put(d, k, v) == [x \in (DOMAIN d) \cup {k} |-> IF x = k THEN v ELSE d[x]]

\* the characters of file names, in code-point order
Ascii == <<"\n", " ", ",", "-", ".", "/", "0", "1", "2", "3", "4", "5", "6",
           "7", "8", "9", ":", "F", "W", "a", "d", "e", "g", "h", "i", "k",
           "m", "p", "r", "s", "t", "v", "x">>
Ord(c) == CHOOSE i \in 1..Len(Ascii) : Ascii[i] = c

\* a < b and a <= b on text, as Python compares str
StrLess(a, b) ==
    LET n == IF Len(a) < Len(b) THEN Len(a) ELSE Len(b)
        diff == {i \in 1..n : a[i] # b[i]}
    IN  IF diff = {} THEN Len(a) < Len(b)
        ELSE Ord(a[Min(diff)]) < Ord(b[Min(diff)])
StrLeq(a, b) == a = b \/ StrLess(a, b)

Digits == <<"0", "1", "2", "3", "4", "5", "6", "7", "8", "9">>
DigitSet == {Digits[i] : i \in 1..10}
Whitespace == {" ", "\n"}

\* s.rstrip(cs): drop the trailing run of characters in cs
RECURSIVE RStrip(_, _)
RStrip(s, cs) ==
    IF s # <<>> /\ s[Len(s)] \in cs THEN RStrip(SubSeq(s, 1, Len(s) - 1), cs)
    ELSE s

\* s.lstrip(cs): drop the leading run of characters in cs
RECURSIVE LStrip(_, _)
LStrip(s, cs) ==
    IF s # <<>> /\ s[1] \in cs THEN LStrip(Tail(s), cs) ELSE s

\* s.split(c) with a one-character separator: every occurrence splits
RECURSIVE Split(_, _)
Split(s, c) ==
    LET at == {i \in 1..Len(s) : s[i] = c}
    IN  IF at = {} THEN <<s>>
        ELSE <<SubSeq(s, 1, Min(at) - 1)>>
                 \o Split(SubSeq(s, Min(at) + 1, Len(s)), c)

\* s.rsplit(c, 1): split once, at the last occurrence of c
RSplit1(s, c) ==
    LET at == {i \in 1..Len(s) : s[i] = c}
    IN  IF at = {} THEN <<s>>
        ELSE <<SubSeq(s, 1, Max(at) - 1), SubSeq(s, Max(at) + 1, Len(s))>>

\* s.replace(c, '')
RECURSIVE Remove(_, _)
Remove(s, c) ==
    IF s = <<>> THEN <<>>
    ELSE (IF s[1] = c THEN <<>> ELSE <<s[1]>>) \o Remove(Tail(s), c)

\* int(s) accepts s when it is a non-empty run of decimal digits
IsInt(s) == s # <<>> /\ \A i \in 1..Len(s) : s[i] \in DigitSet
DigitVal(c) == (CHOOSE i \in 1..10 : Digits[i] = c) - 1
RECURSIVE IntOf(_)
IntOf(s) ==
    IF s = <<>> THEN 0
    ELSE 10 * IntOf(SubSeq(s, 1, Len(s) - 1)) + DigitVal(s[Len(s)])

\* "%d" % n for n >= 0
RECURSIVE Dec(_)
Dec(n) == IF n < 10 THEN <<Digits[n + 1]>>
          ELSE Dec(n \div 10) \o <<Digits[(n % 10) + 1]>>

\* "%.2d" % n for n >= 0: at least two digits, zero-padded
Fmt2d(n) == IF Len(Dec(n)) < 2 THEN <<"0">> \o Dec(n) ELSE Dec(n)

\* os.path.splitext(name) of a name without directory part: the extension
\* starts at the last dot, unless only dots precede that dot
SplitExt(name) ==
    LET dots == {i \in 1..Len(name) : name[i] = "."}
        lead == Len(name) - Len(LStrip(name, {"."}))
    IN  IF dots = {} \/ Max(dots) <= lead THEN <<name, <<>> >>
        ELSE <<SubSeq(name, 1, Max(dots) - 1), SubSeq(name, Max(dots), Len(name))>>

\* os.path.join(a, b) for a relative b
PathJoin(a, b) == a \o <<"/">> \o b

----------------------------------------------------------------------------
(* Inputs *)

IDS == {<<"1","0">>, <<"2","0">>}

FightFinderURL == <<"h","t","t","p",":","/","/","w","w","w",".","s","h","e","r","d","o","g",".","c","o","m","/","f","i","g","h","t","f","i","n","d","e","r","/","f","i","g","h","t","f","i","n","d","e","r",".","a","s","p","?">>

----------------------------------------------------------------------------
(* getHtml *)

\* line 32: client = urlopen(url); urlopen may raise, and then there is no
\* client
Urlopen ==
    /\ pc = "urlopen"
    /\ \/ /\ conn' = "open"
          /\ pc' = "read"
          /\ UNCHANGED <<outcome, err>>
       \/ /\ conn' = conn
          /\ pc' = "done"
          /\ outcome' = "raised"
          /\ err' = "URLError"
    /\ UNCHANGED <<caller, url, eventVars, tableVars, fighterVars, navVars>>

\* line 35: data = client.read(); a failed read leaves getHtml at once
Read ==
    /\ pc = "read"
    /\ \/ /\ pc' = "close"
          /\ UNCHANGED <<outcome, err>>
       \/ /\ pc' = "done"
          /\ outcome' = "raised"
          /\ err' = "IOError"
    /\ UNCHANGED <<fetchVars, eventVars, tableVars, fighterVars, navVars>>

\* lines 38-41: client.close(); return data
Close ==
    /\ pc = "close"
    /\ conn' = "closed"
    /\ pc' = IF caller = "getFighterDetails" THEN "f_soup" ELSE "e_title"
    /\ UNCHANGED <<outcome, err, caller, url, eventVars, tableVars, fighterVars, navVars>>

----------------------------------------------------------------------------
(* getEventDetails *)

\* an exception leaves the running function
Raise(e) ==
    /\ pc' = "done"
    /\ outcome' = "raised"
    /\ err' = e

\* soup.find(...) found no such tag
NoTag == <<"NoTag">>

\* lines 98-109
months ==
    (<<"J","a","n","u","a","r","y">> :> <<"0","1">>) @@ (<<"F","e","b","r","u","a","r","y">> :> <<"0","2">>) @@ (<<"M","a","r","c","h">> :> <<"0","3">>) @@
    (<<"A","p","r","i","l">> :> <<"0","4">>) @@ (<<"M","a","y">> :> <<"0","5">>) @@ (<<"J","u","n","e">> :> <<"0","6">>) @@
    (<<"J","u","l","y">> :> <<"0","7">>) @@ (<<"A","u","g","u","s","t">> :> <<"0","8">>) @@ (<<"S","e","p","t","e","m","b","e","r">> :> <<"0","9">>) @@
    (<<"O","c","t","o","b","e","r">> :> <<"1","0">>) @@ (<<"N","o","v","e","m","b","e","r">> :> <<"1","1">>) @@ (<<"D","e","c","e","m","b","e","r">> :> <<"1","2">>)

NoDate == [ok |-> FALSE, err |-> "", date |-> <<>>]

\* DayOf with "%d" in place of "%.2d"
DayOfUnpadded(tok) == Dec(IntOf(RStrip(tok, {","})))

\* "%.2d" % int(tempDate.split(' ')[1].rstrip(','))  (line 113)
DayOf(tok) == Fmt2d(IntOf(RStrip(tok, {","})))

\* lines 96-115, for the text d of the date tag: what the date is, or the
\* exception raised
DateConv(d) ==
    IF d = None THEN [NoDate EXCEPT !.err = "AttributeError"]
    ELSE LET toks == Split(d, " ") IN
         IF Len(toks) < 3 THEN [NoDate EXCEPT !.err = "IndexError"]
         ELSE IF toks[1] \notin DOMAIN months THEN [NoDate EXCEPT !.err = "KeyError"]
         ELSE IF ~IsInt(RStrip(toks[2], {","})) THEN [NoDate EXCEPT !.err = "ValueError"]
         ELSE [ok |-> TRUE, err |-> "",
               date |-> toks[3] \o <<"-">> \o months[toks[1]] \o <<"-">> \o DayOf(toks[2])]

\* a table cell: its .string, the href of its .a, and its findAll(text=True)
Cell(s) == [string |-> s, a |-> None, texts |-> <<s>>]
FCell(name, href, tail) == [string |-> None, a |-> href, texts |-> <<name>> \o tail]

\* href.rsplit('-', 1)[1] of a fighter cell (lines 160, 162, 167)
NoId == [ok |-> FALSE, err |-> "", id |-> <<>>]
FighterId(cell) ==
    IF cell.a = None THEN [NoId EXCEPT !.err = "TypeError"]
    ELSE IF Len(RSplit1(cell.a, "-")) < 2 THEN [NoId EXCEPT !.err = "IndexError"]
    ELSE [ok |-> TRUE, err |-> "", id |-> RSplit1(cell.a, "-")[2]]

\* WinnerOf storing the id of the other fighter
WinnerOfOpponent(cols) ==
    IF cols[2].texts[2] = <<"W","i","n","n","e","r">> THEN FighterId(cols[4]).id ELSE <<>>

\* lines 165-170
WinnerOf(cols) ==
    IF cols[2].texts[2] = <<"W","i","n","n","e","r">> THEN FighterId(cols[2]).id ELSE <<>>

NoFight == [ok |-> FALSE, err |-> "", fight |-> <<>>]

\* lines 151-179: the fightDetails of one row, or the exception raised
FightOf(cols) ==
    IF Len(cols) < 2 THEN [NoFight EXCEPT !.err = "IndexError"]
    ELSE IF ~FighterId(cols[2]).ok THEN [NoFight EXCEPT !.err = FighterId(cols[2]).err]
    ELSE IF Len(cols) < 4 THEN [NoFight EXCEPT !.err = "IndexError"]
    ELSE IF ~FighterId(cols[4]).ok THEN [NoFight EXCEPT !.err = FighterId(cols[4]).err]
    ELSE IF Len(cols[2].texts) < 2 THEN [NoFight EXCEPT !.err = "IndexError"]
    ELSE IF Len(cols) < 7 THEN [NoFight EXCEPT !.err = "IndexError"]
    ELSE [ok |-> TRUE, err |-> "",
          fight |-> [ID |-> cols[1].string,
                     fighter1 |-> FighterId(cols[2]).id,
                     fighter2 |-> FighterId(cols[4]).id,
                     winner |-> WinnerOf(cols),
                     result |-> cols[5].string,
                     round |-> cols[6].string,
                     time |-> cols[7].string]]

\* lines 119 and 126: venue and city from the text nodes of the venue tag
VenueOf(texts) ==
    IF texts = NoTag \/ Len(texts) < 1 THEN <<>>
    ELSE RStrip(RStrip(texts[1], Whitespace), {","})
CityOf(texts) ==
    IF texts = NoTag \/ Len(texts) < 2 THEN <<>>
    ELSE LStrip(RStrip(texts[2], Whitespace), Whitespace)

\* the pages the scraper is run on
TitleFinds == {NoTag, <<"U","F","C"," ","1">>}
PromotionFinds == {NoTag, <<"U","F","C">>}
DateFinds == {NoTag, None, <<"M","a","r","c","h"," ","4",","," ","2","0","0","9">>, <<"M","a","r","c","h"," ","1","4",","," ","2","0","0","9">>, <<"S","m","a","r","c","h"," ","4",","," ","2","0","0","9">>}
VenueFinds == {NoTag, << <<"M","G","M",","," ","\n">> >>, << <<"M","G","M",","," ","\n">>, <<" ","L","V"," ","\n">> >>}

RowKinds == {"win", "draw", "nomark", "short", "noanchor", "nohyphen", "badround"}

\* the n-th fight row of a table, of the given kind
RowOf(kind, n) ==
    LET id == Cell(Dec(n))
        h1 == <<"/","f","/","A","-","B","-","1">> \o Dec(n)
        h2 == <<"/","f","/","C","-","2">> \o Dec(n)
        f1 == CASE kind = "win" -> FCell(<<"A"," ","B">>, h1, << <<"W","i","n","n","e","r">> >>)
                [] kind = "nomark" -> FCell(<<"A"," ","B">>, h1, <<>>)
                [] kind = "noanchor" -> [string |-> None, a |-> None,
                                         texts |-> << <<"A"," ","B">>, <<"W","i","n","n","e","r">> >>]
                [] OTHER -> FCell(<<"A"," ","B">>, h1, << <<"D","r","a","w">> >>)
        f2 == IF kind = "nohyphen" THEN FCell(<<"C">>, <<"/","f","/","C">>, <<>>)
              ELSE FCell(<<"C">>, h2, <<>>)
        round == IF kind = "badround" THEN <<"N","/","A">> ELSE <<"1">>
    IN  IF kind = "short" THEN <<id, f1, Cell(<<"v","s">>)>>
        ELSE <<id, f1, Cell(<<"v","s">>), f2, Cell(<<"K","O">>), Cell(round), Cell(<<"4",":","5","9">>)>>

\* the header row holds th cells only
Header == <<>>

NoTable == [found |-> FALSE, rows |-> <<>>]
Tables ==
    {NoTable, [found |-> TRUE, rows |-> <<>>]} \cup
    {[found |-> TRUE, rows |-> <<Header>> \o [i \in DOMAIN ks |-> RowOf(ks[i], i)]] :
        ks \in UNION {[1..m -> RowKinds] : m \in 0..MaxRows}}

\* line 44-85, up to the call of getHtml
GetEventDetails ==
    /\ pc = "idle"
    /\ \E eventID \in IDS :
          /\ eventDetails' = Put(<<>>, "ID", eventID)
          /\ url' = FightFinderURL \o <<"e","v","e","n","t","I","D","=">> \o eventID
    /\ caller' = "getEventDetails"
    /\ pc' = "urlopen"
    /\ UNCHANGED <<outcome, err, conn, tempDate, tableVars, fighterVars, navVars>>

\* line 88
EvTitle ==
    /\ pc = "e_title"
    /\ \E t \in TitleFinds :
          IF t = NoTag
          THEN Raise("AttributeError") /\ UNCHANGED eventDetails
          ELSE /\ eventDetails' = Put(eventDetails, "title", t)
               /\ pc' = "e_promotion"
               /\ UNCHANGED <<outcome, err>>
    /\ UNCHANGED <<fetchVars, tempDate, tableVars, fighterVars, navVars>>

\* line 91
EvPromotion ==
    /\ pc = "e_promotion"
    /\ \E p \in PromotionFinds :
          IF p = NoTag
          THEN Raise("AttributeError") /\ UNCHANGED eventDetails
          ELSE /\ eventDetails' = Put(eventDetails, "promotion", p)
               /\ pc' = "e_finddate"
               /\ UNCHANGED <<outcome, err>>
    /\ UNCHANGED <<fetchVars, tempDate, tableVars, fighterVars, navVars>>

\* line 94
EvFindDate ==
    /\ pc = "e_finddate"
    /\ \E d \in DateFinds :
          IF d = NoTag
          THEN Raise("AttributeError") /\ UNCHANGED tempDate
          ELSE /\ tempDate' = d
               /\ pc' = "e_date"
               /\ UNCHANGED <<outcome, err>>
    /\ UNCHANGED <<fetchVars, eventDetails, tableVars, fighterVars, navVars>>

\* lines 96-115
EvDate ==
    /\ pc = "e_date"
    /\ IF DateConv(tempDate).ok
       THEN /\ eventDetails' = Put(eventDetails, "date", DateConv(tempDate).date)
            /\ pc' = "e_venue"
            /\ UNCHANGED <<outcome, err>>
       ELSE Raise(DateConv(tempDate).err) /\ UNCHANGED eventDetails
    /\ UNCHANGED <<fetchVars, tempDate, tableVars, fighterVars, navVars>>

\* lines 117-129
EvVenueCity ==
    /\ pc = "e_venue"
    /\ \E texts \in VenueFinds :
          eventDetails' = Put(Put(eventDetails, "venue", VenueOf(texts)),
                              "city", CityOf(texts))
    /\ pc' = "e_table"
    /\ UNCHANGED <<outcome, err, fetchVars, tempDate, tableVars, fighterVars, navVars>>

\* lines 132-142; table.findAll raises on None, inside the try of line 137
EvTable ==
    /\ pc = "e_table"
    /\ \E t \in Tables :
          /\ table' = t
          /\ rows' = t.rows
          /\ pc' = IF t.found THEN "e_row" ELSE "e_return"
    /\ eventDetails' = Put(eventDetails, "fights", <<>>)
    /\ rowcount' = 0
    /\ UNCHANGED <<outcome, err, fetchVars, tempDate, fighterVars, navVars>>

\* lines 145-189: one pass of the loop over rows; an exception in the pass
\* is caught at line 187, outside the loop
EvRow ==
    /\ pc = "e_row"
    /\ \/ /\ rowcount < Len(rows)
          /\ rowcount = 0
          /\ rowcount' = rowcount + 1
          /\ UNCHANGED <<pc, eventDetails>>
       \/ /\ rowcount < Len(rows)
          /\ rowcount # 0
          /\ FightOf(rows[rowcount + 1]).ok
          /\ eventDetails' =
                [eventDetails EXCEPT
                    !.fights = Append(@, FightOf(rows[rowcount + 1]).fight)]
          /\ rowcount' = rowcount + 1
          /\ UNCHANGED pc
       \/ /\ rowcount < Len(rows)
          /\ rowcount # 0
          /\ ~FightOf(rows[rowcount + 1]).ok
          /\ pc' = "e_return"
          /\ UNCHANGED <<rowcount, eventDetails>>
       \/ /\ rowcount = Len(rows)
          /\ pc' = "e_return"
          /\ UNCHANGED <<rowcount, eventDetails>>
    /\ UNCHANGED <<outcome, err, fetchVars, tempDate, table, rows, fighterVars, navVars>>

\* line 192
EvReturn ==
    /\ pc = "e_return"
    /\ pc' = "done"
    /\ outcome' = "returned"
    /\ UNCHANGED <<err, fetchVars, eventVars, tableVars, fighterVars, navVars>>

----------------------------------------------------------------------------
(* getFighterDetails *)

\* a cell of the fighter-profile table: its .string and the .string of its .a
PCell(s, link) == [string |-> s, astring |-> link]

\* x.rstrip(' ').rstrip('\n')  (lines 257-286)
Clean(x) == RStrip(RStrip(x, {" "}), {"\n"})

\* lines 256-286: the key the label of a row selects, "" when it selects none
KeyOf(label) ==
    IF Clean(label) = <<"N","a","m","e">> THEN "name"
    ELSE IF Clean(label) = <<"N","i","c","k"," ","N","a","m","e">> THEN "nickName"
    ELSE IF Clean(label) = <<"A","s","s","o","c","i","a","t","i","o","n">> THEN "association"
    ELSE IF Clean(label) = <<"H","e","i","g","h","t">> THEN "height"
    ELSE IF Clean(label) = <<"W","e","i","g","h","t">> THEN "weight"
    ELSE IF Clean(label) = <<"B","i","r","t","h"," ","D","a","t","e">> THEN "birthDate"
    ELSE IF Clean(label) = <<"C","i","t","y">> THEN "city"
    ELSE IF Clean(label) = <<"C","o","u","n","t","r","y">> THEN "country"
    ELSE ""

\* the text the row gives for the key: infoItem[1].a.string for the
\* association, infoItem[1].string otherwise
ValueOf(infoItem, key) ==
    IF key = "association" THEN infoItem[2].astring ELSE infoItem[2].string

\* the exception raised when the row's value is read, "" if none
ValueErr(infoItem, key) ==
    IF Len(infoItem) < 2 THEN "IndexError"
    ELSE IF ValueOf(infoItem, key) = None THEN "AttributeError"
    ELSE ""

\* lines 219-233
EmptyFighter(fighterID) ==
    [ID |-> fighterID, name |-> <<>>, nickName |-> <<>>, association |-> <<>>,
     height |-> <<>>, weight |-> <<>>, birthDate |-> <<>>, city |-> <<>>,
     country |-> <<>>]

\* the pages the scraper is run on
MaxProfileRows == 2

LabelTexts == {None, <<"N","a","m","e">>, <<" ","N","a","m","e"," ">>, <<"N","a","m","e"," ">>, <<"N","a","m","e"," ","\n">>, <<"N","a","m","e","\n">>,
               <<"N","a","m","e","\n"," ">>, <<"N","i","c","k","n","a","m","e">>, <<"N","i","c","k"," ","N","a","m","e">>, <<"A","s","s","o","c","i","a","t","i","o","n">>,
               <<"H","e","i","g","h","t">>, <<"W","e","i","g","h","t">>, <<"B","i","r","t","h"," ","D","a","t","e">>, <<"C","i","t","y">>, <<"C","o","u","n","t","r","y">>}
ValueCells == {PCell(<<"B","o","b","\n"," ">>, None), PCell(None, <<"T","e","a","m"," ">>)}
ProfileRows ==
    {<<>>} \cup {<<PCell(l, None)>> : l \in LabelTexts}
           \cup {<<PCell(l, None), v>> : l \in LabelTexts, v \in ValueCells}
ProfileTables ==
    {NoTable} \cup
    {[found |-> TRUE, rows |-> rs] :
        rs \in UNION {[1..m -> ProfileRows] : m \in 0..MaxProfileRows}}
PictureFinds == {NoTag, <<"/","p","/","1",".","j","p","g">>}

\* lines 195-237, up to the call of getHtml
GetFighterDetails ==
    /\ pc = "idle"
    /\ \E fighterID \in IDS :
          /\ fighterDetails' = EmptyFighter(fighterID)
          /\ url' = FightFinderURL \o <<"f","i","g","h","t","e","r","I","D","=">> \o fighterID
    /\ caller' = "getFighterDetails"
    /\ pc' = "urlopen"
    /\ UNCHANGED <<outcome, err, conn, eventVars, tableVars, picture, navVars>>

\* lines 240-244: the page parsed; table.findAll raises when there is no
\* fighter_profile tag
FtTable ==
    /\ pc = "f_soup"
    /\ \E t \in ProfileTables, p \in PictureFinds :
          /\ table' = t
          /\ picture' = p
          /\ IF t.found
             THEN /\ rows' = t.rows
                  /\ pc' = "f_row"
                  /\ UNCHANGED <<outcome, err>>
             ELSE Raise("AttributeError") /\ UNCHANGED rows
    /\ rowcount' = 0
    /\ UNCHANGED <<fetchVars, eventVars, fighterDetails, navVars>>

\* lines 256-286 for a row with a label: the dict after the elif chain
WithField(details, infoItem) ==
    LET key == KeyOf(infoItem[1].string)
    IN  IF key = "" \/ ValueErr(infoItem, key) # "" THEN details
        ELSE [details EXCEPT ![key] = Clean(ValueOf(infoItem, key))]

\* the exception one pass of the loop raises, "" if none
RowErr(infoItem, pic) ==
    IF Len(infoItem) < 1 THEN "IndexError"
    ELSE IF infoItem[1].string = None THEN ""
    ELSE IF KeyOf(infoItem[1].string) # ""
            /\ ValueErr(infoItem, KeyOf(infoItem[1].string)) # ""
         THEN ValueErr(infoItem, KeyOf(infoItem[1].string))
    ELSE IF pic = NoTag THEN "AttributeError"
    ELSE ""

\* lines 247-289: one pass of the loop over rows
FtRow ==
    /\ pc = "f_row"
    /\ rowcount < Len(rows)
    /\ LET infoItem == rows[rowcount + 1] IN
       \/ /\ RowErr(infoItem, picture) # ""
          /\ fighterDetails' =
                IF Len(infoItem) < 1 THEN fighterDetails
                ELSE WithField(fighterDetails, infoItem)
          /\ Raise(RowErr(infoItem, picture))
          /\ UNCHANGED rowcount
       \/ /\ RowErr(infoItem, picture) = ""
          /\ infoItem[1].string = None
          /\ rowcount' = rowcount + 1
          /\ UNCHANGED <<pc, outcome, err, fighterDetails>>
       \/ /\ RowErr(infoItem, picture) = ""
          /\ infoItem[1].string # None
          /\ fighterDetails' =
                Put(WithField(fighterDetails, infoItem), "thumbUrl", picture)
          /\ rowcount' = rowcount + 1
          /\ UNCHANGED <<pc, outcome, err>>
    /\ UNCHANGED <<fetchVars, eventVars, table, rows, picture, navVars>>

\* line 292
FtReturn ==
    /\ pc = "f_row"
    /\ rowcount = Len(rows)
    /\ pc' = "done"
    /\ outcome' = "returned"
    /\ UNCHANGED <<err, fetchVars, eventVars, tableVars, fighterVars, navVars>>

----------------------------------------------------------------------------
(* getEvent *)

\* line 96
VideoExts == {<<".","m","k","v">>, <<".","m","p","4">>, <<".","f","l","v">>, <<".","a","v","i">>, <<".","i","s","o">>, <<".","m","p","g">>, <<".","t","s">>}

\* the directories of the metadata cache and of the promotion artwork
ThumbDir == <<"/","t">>
PromotionDir == <<"/","p">>

\* line 93: os.path.splitext(vidFileName)[0].lstrip('0123456789. ')
CleanTitle(name) == LStrip(SplitExt(name)[1], DigitSet \cup {".", " "})

\* lines 88-95: the vidFile of a file name found under root
VidFile(root, name, clean) ==
    [filename |-> name,
     ext |-> SplitExt(name)[2],
     path |-> PathJoin(root, name),
     title |-> IF clean THEN CleanTitle(name) ELSE name]

\* lines 96-99
Accepted(vidFile) == vidFile.ext \in VideoExts

\* lines 87-99: the files of one directory, appended in the order listed
RECURSIVE DirFiles(_, _, _)
DirFiles(root, files, clean) ==
    IF files = <<>> THEN <<>>
    ELSE (IF Accepted(VidFile(root, files[1], clean))
          THEN <<VidFile(root, files[1], clean)>> ELSE <<>>)
         \o DirFiles(root, Tail(files), clean)

\* lines 85-99: fileList after the walk w, a sequence of (root, files)
RECURSIVE BuildFileList(_, _)
BuildFileList(w, clean) ==
    IF w = <<>> THEN <<>>
    ELSE DirFiles(w[1].root, w[1].files, clean) \o BuildFileList(Tail(w), clean)

\* sorted(fileList, key=lambda k: k['filename']) is a stable sort: v goes
\* behind every element whose filename is not greater
RECURSIVE InsertSorted(_, _)
InsertSorted(s, v) ==
    IF s = <<>> THEN <<v>>
    ELSE IF StrLess(v.filename, s[1].filename) THEN <<v>> \o s
    ELSE <<s[1]>> \o InsertSorted(Tail(s), v)

RECURSIVE Sorted(_)
Sorted(list) ==
    IF list = <<>> THEN <<>>
    ELSE InsertSorted(Sorted(SubSeq(list, 1, Len(list) - 1)), list[Len(list)])

\* lines 74-76 and 77-79
ArtPath(cached, id, promotion, suffix) ==
    IF cached THEN PathJoin(ThumbDir, id \o suffix)
    ELSE PathJoin(PromotionDir, Remove(promotion, " ") \o suffix)

\* line 80
Outline(ev) == ev[4] \o <<":"," ">> \o ev[5] \o <<","," ">> \o ev[6]

\* the text of the cached description file
DescriptionText == <<"t","e","x","t">>

\* line 105: the link addLink adds for a vidFile of entry e
Link(vidFile, ev, e, a) ==
    [linkName |-> vidFile.title,
     plotoutline |-> Outline(ev),
     plot |-> IF a.description THEN DescriptionText ELSE Outline(ev),
     url |-> vidFile.path,
     thumbPath |-> ArtPath(a.poster, e.ID, ev[3], <<"-","p","o","s","t","e","r",".","j","p","g">>),
     fanartPath |-> ArtPath(a.fanart, e.ID, ev[3], <<"-","f","a","n","a","r","t",".","j","p","g">>),
     genre |-> <<"M","M","A">>]

\* Links without the sort of line 104
LinksUnsorted(list, ev, e, a) == [i \in 1..Len(list) |-> Link(list[i], ev, e, a)]

\* lines 104-105: the links of one entry, in the order added
Links(list, ev, e, a) == [i \in 1..Len(list) |-> Link(Sorted(list)[i], ev, e, a)]

\* the library, the metadata store and the file system getEvent is run on
Names == {<<"0","2","."," ","F","i","g","h","t",".","m","k","v">>, <<"0","1","."," ","F","i","g","h","t",".","m","k","v">>, <<"r","e","a","d","m","e",".","t","x","t">>}

\* the events getEvent is asked for
EventIDs == {<<"1","0">>}

\* dbops.getEvent(eventID)
EventRow(id) == <<id, <<"U","F","C"," ","1">>, <<"P","r","i","d","e"," ","F","C">>, <<"2","0","0","9","-","0","3","-","0","4">>, <<"M","G","M">>, <<"L","V">>>>

Libraries ==
    {[i \in DOMAIN ids |-> [ID |-> ids[i], path |-> <<"/","v">> \o Dec(i)]] :
        ids \in UNION {[1..n -> IDS] : n \in 0..MaxEntries}}

\* the files of one directory: no name twice
Listings(n) ==
    {fs \in UNION {[1..m -> Names] : m \in 0..n} :
        \A i, j \in DOMAIN fs : i # j => fs[i] # fs[j]}

\* os.walk(path): the directory itself, then its one subdirectory
Walks(path) ==
    UNION {{<<[root |-> path, files |-> top],
              [root |-> PathJoin(path, <<"s">>), files |-> sub]>> :
               sub \in Listings(MaxFiles - Len(top))} :
           top \in Listings(MaxFiles)}

\* which of the cached poster, fanart and description files exist
ArtStates ==
    {[poster |-> b, fanart |-> b, description |-> b] : b \in BOOLEAN}

\* lines 69-71
GetEvent ==
    /\ pc = "idle"
    /\ \E eventID \in EventIDs : event' = EventRow(eventID)
    /\ libraryList' \in Libraries
    /\ cleanFilenames' \in BOOLEAN
    /\ art' \in ArtStates
    /\ entryIndex' = 0
    /\ pc' = "n_loop"
    /\ UNCHANGED <<outcome, err, fetchVars, eventVars, tableVars, fighterVars,
                   walk, fileList, listing, played>>

\* lines 72-73: an entry of another event
NavSkip ==
    /\ pc = "n_loop"
    /\ entryIndex < Len(libraryList)
    /\ event[1] # libraryList[entryIndex + 1].ID
    /\ entryIndex' = entryIndex + 1
    /\ UNCHANGED <<pc, outcome, err, fetchVars, eventVars, tableVars, fighterVars,
                   event, libraryList, cleanFilenames, art, walk, fileList,
                   listing, played>>

\* lines 72-73: the entry the loop is at is an entry of the event
AtEntry ==
    /\ pc = "n_loop"
    /\ entryIndex < Len(libraryList)
    /\ event[1] = libraryList[entryIndex + 1].ID

\* NavPlay without the sys.exit(0) of line 102: the loop goes on
NavPlayNoExit ==
    /\ AtEntry
    /\ \E w \in Walks(libraryList[entryIndex + 1].path) :
          /\ Len(BuildFileList(w, cleanFilenames)) = 1
          /\ walk' = w
          /\ fileList' = BuildFileList(w, cleanFilenames)
          /\ played' = Append(played, BuildFileList(w, cleanFilenames)[1].path)
    /\ pc' = "n_next"
    /\ UNCHANGED <<outcome, err, fetchVars, eventVars, tableVars, fighterVars,
                   event, libraryList, entryIndex, cleanFilenames, art, listing>>

\* lines 73-102, for an entry of the event with one accepted file:
\* sys.exit(0) ends the call with SystemExit, or with NameError where the
\* name sys is not bound in the module
NavPlay ==
    /\ AtEntry
    /\ \E w \in Walks(libraryList[entryIndex + 1].path) :
          /\ Len(BuildFileList(w, cleanFilenames)) = 1
          /\ walk' = w
          /\ fileList' = BuildFileList(w, cleanFilenames)
          /\ played' = Append(played, BuildFileList(w, cleanFilenames)[1].path)
    /\ \/ Raise("SystemExit")
       \/ Raise("NameError")
    /\ UNCHANGED <<fetchVars, eventVars, tableVars, fighterVars, event,
                   libraryList, entryIndex, cleanFilenames, art, listing>>

\* lines 73-105, for an entry of the event with no or several accepted files
NavList ==
    /\ AtEntry
    /\ \E w \in Walks(libraryList[entryIndex + 1].path) :
          /\ Len(BuildFileList(w, cleanFilenames)) # 1
          /\ walk' = w
          /\ fileList' = BuildFileList(w, cleanFilenames)
          /\ listing' = listing \o Links(BuildFileList(w, cleanFilenames), event,
                                         libraryList[entryIndex + 1], art)
    /\ pc' = "n_next"
    /\ UNCHANGED <<outcome, err, fetchVars, eventVars, tableVars, fighterVars,
                   event, libraryList, entryIndex, cleanFilenames, art, played>>

\* line 72: the loop takes the next entry; the walk of the last one is used up
NavNext ==
    /\ pc = "n_next"
    /\ entryIndex' = entryIndex + 1
    /\ walk' = <<>>
    /\ fileList' = <<>>
    /\ pc' = "n_loop"
    /\ UNCHANGED <<outcome, err, fetchVars, eventVars, tableVars, fighterVars,
                   event, libraryList, cleanFilenames, art, listing, played>>

\* the loop of line 72 is over
NavReturn ==
    /\ pc = "n_loop"
    /\ entryIndex = Len(libraryList)
    /\ pc' = "done"
    /\ outcome' = "returned"
    /\ UNCHANGED <<err, fetchVars, eventVars, tableVars, fighterVars, navVars>>

----------------------------------------------------------------------------
(* Specifications *)

Init ==
    /\ pc = "idle"
    /\ outcome = "none"
    /\ err = ""
    /\ caller = ""
    /\ url = <<>>
    /\ conn = "none"
    /\ eventDetails = <<>>
    /\ tempDate = None
    /\ table = NoTable
    /\ rows = <<>>
    /\ rowcount = 0
    /\ fighterDetails = <<>>
    /\ picture = None
    /\ event = <<>>
    /\ libraryList = <<>>
    /\ entryIndex = 0
    /\ cleanFilenames = FALSE
    /\ art = [poster |-> FALSE, fanart |-> FALSE, description |-> FALSE]
    /\ walk = <<>>
    /\ fileList = <<>>
    /\ listing = <<>>
    /\ played = <<>>

NextEvent ==
    \/ GetEventDetails
    \/ Urlopen
    \/ Read
    \/ Close
    \/ EvTitle
    \/ EvPromotion
    \/ EvFindDate
    \/ EvDate
    \/ EvVenueCity
    \/ EvTable
    \/ EvRow
    \/ EvReturn

SpecEvent == Init /\ [][NextEvent]_vars

NextFighter ==
    \/ GetFighterDetails
    \/ Urlopen
    \/ Read
    \/ Close
    \/ FtTable
    \/ FtRow
    \/ FtReturn

SpecFighter == Init /\ [][NextFighter]_vars

NextNav ==
    \/ GetEvent
    \/ NavSkip
    \/ NavPlay
    \/ NavList
    \/ NavNext
    \/ NavReturn

SpecNav == Init /\ [][NextNav]_vars

\* the date texts the conversion of lines 96-115 is run on
MaxDay == 31
MonthTexts == DOMAIN months \cup {<<"S","m","a","r","c","h">>, <<"m","a","r","c","h">>, <<"M","a","r">>, <<>>}
DayTexts == {Dec(d) : d \in 1..MaxDay} \cup {<<"0","4">>, <<"4","t","h">>}
YearTexts == {<<"2","0","0","9">>, <<"1","9","9","9">>}
DateTexts ==
    {m \o gap \o d \o comma \o <<" ">> \o y :
        m \in MonthTexts, gap \in {<<" ">>, <<" "," ">>}, d \in DayTexts,
        comma \in {<<",">>, <<>>}, y \in YearTexts}
    \cup {m \o <<" ">> \o d \o <<",">> : m \in MonthTexts, d \in DayTexts}

\* getEventDetails at line 96, the date text read
InitDate ==
    /\ pc = "e_date"
    /\ outcome = "none"
    /\ err = ""
    /\ caller = "getEventDetails"
    /\ \E eventID \in IDS :
          /\ url = FightFinderURL \o <<"e","v","e","n","t","I","D","=">> \o eventID
          /\ eventDetails = [ID |-> eventID, title |-> <<"U","F","C"," ","1">>, promotion |-> <<"U","F","C">>]
    /\ conn = "closed"
    /\ tempDate \in DateTexts
    /\ table = NoTable
    /\ rows = <<>>
    /\ rowcount = 0
    /\ fighterDetails = <<>>
    /\ picture = None
    /\ event = <<>>
    /\ libraryList = <<>>
    /\ entryIndex = 0
    /\ cleanFilenames = FALSE
    /\ art = [poster |-> FALSE, fanart |-> FALSE, description |-> FALSE]
    /\ walk = <<>>
    /\ fileList = <<>>
    /\ listing = <<>>
    /\ played = <<>>

NextDate == EvDate

SpecDate == InitDate /\ [][NextDate]_vars

----------------------------------------------------------------------------
(* Properties of getHtml and getEventDetails *)

\* the fightDetails of the rows that extract without an exception, in order
RECURSIVE GoodFights(_)
GoodFights(rs) ==
    IF rs = <<>> THEN <<>>
    ELSE (IF FightOf(rs[1]).ok THEN <<FightOf(rs[1]).fight>> ELSE <<>>)
         \o GoodFights(Tail(rs))

\* the rows of the fight-card table after the header row
DataRows == IF rows = <<>> THEN <<>> ELSE Tail(rows)

\* C1: when the extraction of one row after the header raises, only that
\* row is left out: the returned fights are those of every other row, the
\* rows before it and the rows after it, in table order.
C1_OnlyTheBadRowIsSkipped ==
    (/\ outcome = "returned"
     /\ caller = "getEventDetails"
     /\ table.found
     /\ Cardinality({i \in 1..Len(DataRows) : ~FightOf(DataRows[i]).ok}) = 1)
    => eventDetails.fights = GoodFights(DataRows)

\* C2: no execution of getHtml ends, by return or by an exception, with
\* the connection opened and not closed.
C2_ConnectionAlwaysReleased ==
    (pc \notin {"read", "close"}) => conn # "open"

\* C5: every fight of a returned event has a round that is a positive
\* integer (a row with a non-numeric round is skipped).
C5_RoundIsPositiveInteger ==
    (outcome = "returned" /\ caller = "getEventDetails")
    => \A i \in 1..Len(eventDetails.fights) :
          /\ IsInt(eventDetails.fights[i].round)
          /\ IntOf(eventDetails.fights[i].round) > 0

\* the twelve month names in calendar order, and a number in two digits
MonthNames == << <<"J","a","n","u","a","r","y">>, <<"F","e","b","r","u","a","r","y">>, <<"M","a","r","c","h">>, <<"A","p","r","i","l">>, <<"M","a","y">>, <<"J","u","n","e">>,
                 <<"J","u","l","y">>, <<"A","u","g","u","s","t">>, <<"S","e","p","t","e","m","b","e","r">>, <<"O","c","t","o","b","e","r">>, <<"N","o","v","e","m","b","e","r">>,
                 <<"D","e","c","e","m","b","e","r">> >>
TwoDigits(n) == <<Digits[(n \div 10) + 1], Digits[(n % 10) + 1]>>

\* the date step of getEventDetails has run on the date text
DateStepDone == pc # "e_date" /\ tempDate # None

\* C7: a date text "Month D, YYYY" or "Month DD, YYYY" with one of the
\* twelve month names gives the date "YYYY-MM-DD", the month as its number
\* 01..12 and the day in two digits; a date text whose month name is not
\* one of the twelve makes the call fail and gives no date.
C7_DateConversion ==
    DateStepDone =>
      /\ \A m \in 1..12, d \in 1..MaxDay, y \in YearTexts :
            tempDate = MonthNames[m] \o <<" ">> \o Dec(d) \o <<",", " ">> \o y
            => /\ outcome # "raised"
               /\ "date" \in DOMAIN eventDetails
               /\ eventDetails.date = y \o <<"-">> \o TwoDigits(m) \o <<"-">> \o TwoDigits(d)
      /\ \A b \in MonthTexts :
            (/\ \A m \in 1..12 : b # MonthNames[m]
             /\ Len(tempDate) > Len(b)
             /\ SubSeq(tempDate, 1, Len(b) + 1) = b \o <<" ">>)
            => /\ outcome = "raised"
               /\ "date" \notin DOMAIN eventDetails

\* a one-digit day and a two-digit day have been converted
C7_Witness ==
    /\ DateStepDone
    /\ "date" \in DOMAIN eventDetails
    /\ \/ tempDate = <<"M","a","r","c","h"," ","4",","," ","2","0","0","9">> /\ eventDetails.date = <<"2","0","0","9","-","0","3","-","0","4">>
       \/ tempDate = <<"D","e","c","e","m","b","e","r"," ","1","4",","," ","1","9","9","9">> /\ eventDetails.date = <<"1","9","9","9","-","1","2","-","1","4">>

\* the second text node of the first fighter's cell is the text "Winner"
MarkedWinner(cols) ==
    Len(cols) >= 2 /\ Len(cols[2].texts) >= 2 /\ cols[2].texts[2] = <<"W","i","n","n","e","r">>

\* the fights stored so far, none before the dict has the key
Fights == IF "fights" \in DOMAIN eventDetails THEN eventDetails.fights ELSE <<>>

----------------------------------------------------------------------------
(* Properties of getFighterDetails *)

\* C3: the fighter image is required: a call on a page without the image
\* tag returns no record, whatever the rows of the profile table, and every
\* record returned has thumbUrl set from the image source.
C3_ImageRequired ==
    (outcome = "returned" /\ caller = "getFighterDetails")
    => /\ picture # NoTag
       /\ "thumbUrl" \in DOMAIN fighterDetails
       /\ fighterDetails.thumbUrl = picture

\* the page has been parsed: the image tag is there, the profile table not
ProfileAbsent ==
    /\ caller = "getFighterDetails"
    /\ pc \notin {"idle", "urlopen", "read", "close", "f_soup"}
    /\ conn = "closed"
    /\ ~table.found
    /\ picture # NoTag

\* C4: on a page with the image tag and without the profile table the call
\* does not fail: it returns the record with the given id and every
\* descriptive field empty.
C4_AbsentTableGivesDefaults ==
    ProfileAbsent
    => /\ outcome # "raised"
       /\ pc = "done" => /\ outcome = "returned"
                         /\ \A k \in {"name", "nickName", "association", "height",
                                      "weight", "birthDate", "city", "country"} :
                               fighterDetails[k] = <<>>

\* text without the whitespace on both sides
Trim(s) == LStrip(RStrip(s, Whitespace), Whitespace)

\* the rows whose label, trimmed on both sides, is "Name", with a value text
NameRows ==
    {i \in 1..Len(rows) :
        /\ Len(rows[i]) >= 2
        /\ rows[i][1].string # None
        /\ Trim(rows[i][1].string) = <<"N","a","m","e">>
        /\ rows[i][2].string # None}

\* C6: labels are trimmed on both sides before the exact comparison: a
\* returned record has its name from the second cell of a row labelled
\* "Name" with whitespace around it, and a page whose labels are all
\* unrecognised leaves every descriptive field empty.
C6_LabelsTrimmedBothSides ==
    (outcome = "returned" /\ caller = "getFighterDetails")
    => /\ NameRows # {} => fighterDetails.name = Trim(rows[Max(NameRows)][2].string)
       /\ (\A i \in 1..Len(rows) :
              /\ Len(rows[i]) >= 1
              /\ rows[i][1].string \in {None, <<"N","i","c","k","n","a","m","e">>})
          => \A k \in {"name", "nickName", "association", "height",
                       "weight", "birthDate", "city", "country"} :
                fighterDetails[k] = <<>>

----------------------------------------------------------------------------
(* Properties of getEvent *)

\* the files of the walk: (directory, position) pairs, their names and paths
Pairs ==
    UNION {{<<d, i>> : i \in 1..Len(walk[d].files)} : d \in 1..Len(walk)}
NameAt(p) == walk[p[1]].files[p[2]]
PathAt(p) == walk[p[1]].root \o <<"/">> \o NameAt(p)

\* the extension of a file name: what follows its last dot
AllowedExts == {<<"m","k","v">>, <<"m","p","4">>, <<"f","l","v">>, <<"a","v","i">>, <<"i","s","o">>, <<"m","p","g">>, <<"t","s">>}
ExtOf(name) ==
    IF Len(Split(name, ".")) < 2 THEN <<>>
    ELSE Split(name, ".")[Len(Split(name, "."))]

\* the files of the walk with an allowed extension, and how many they are
AcceptedPairs == {p \in Pairs : ExtOf(NameAt(p)) \in AllowedExts}
NumAccepted == Cardinality(AcceptedPairs)

\* a name without its extension and without its leading digits, dots, spaces
Stem(name) == SubSeq(name, 1, Len(name) - Len(ExtOf(name)) - 1)
StripLead(s) ==
    LET keep == {i \in 1..Len(s) : s[i] \notin DigitSet \cup {".", " "}}
    IN  IF keep = {} THEN <<>> ELSE SubSeq(s, Min(keep), Len(s))
TitleOf(name) == IF cleanFilenames THEN StripLead(Stem(name)) ELSE name

\* the loop has just listed the files of a library entry of the event
JustListed == pc = "n_next"

\* the name of the file in the set acc that a link plays
FileNameOf(link, acc) == NameAt(CHOOSE p \in acc : PathAt(p) = link.url)

\* C9: for a library entry the loop lists (zero or at least two accepted
\* files), the links added are exactly the files with an allowed extension,
\* each once, in the order of their file names, titled by the cleaned or
\* the raw file name according to the setting.
C9_ListsAcceptedFilesSorted ==
    JustListed =>
      LET acc == AcceptedPairs
          n == Cardinality(acc)
          new == SubSeq(listing, Len(listing) - n + 1, Len(listing))
          names == [i \in 1..n |-> FileNameOf(new[i], acc)]
      IN  /\ n # 1
          /\ Len(listing) >= n
          /\ \A p \in acc :
                Cardinality({i \in 1..n : new[i].url = PathAt(p)}) = 1
          /\ \A i \in 1..n :
                \E p \in acc :
                   /\ new[i].url = PathAt(p)
                   /\ new[i].linkName = TitleOf(NameAt(p))
          /\ \A i, j \in 1..n : i < j => StrLeq(names[i], names[j])

\* the files 02, 01 and readme of one directory are listed as two links
\* titled Fight, 01 before 02
C9_Witness ==
    /\ JustListed
    /\ cleanFilenames
    /\ walk[1].files = << <<"0","2","."," ","F","i","g","h","t",".","m","k","v">>, <<"0","1","."," ","F","i","g","h","t",".","m","k","v">>, <<"r","e","a","d","m","e",".","t","x","t">> >>
    /\ Len(listing) = 2
    /\ listing[1].linkName = <<"F","i","g","h","t">>
    /\ listing[2].linkName = <<"F","i","g","h","t">>
    /\ listing[1].url = <<"/","v","1","/","0","1","."," ","F","i","g","h","t",".","m","k","v">>
    /\ listing[2].url = <<"/","v","1","/","0","2","."," ","F","i","g","h","t",".","m","k","v">>

\* C8 as claimed: when a file is played, no link has been added during the
\* call, whatever the library holds.
C8_PlayNeverLists == played # <<>> => listing = <<>>

\* url is a path below the directory dir
Under(u, dir) ==
    Len(u) > Len(dir) /\ SubSeq(u, 1, Len(dir) + 1) = dir \o <<"/">>

\* the entries of the event before the one the loop is at
EarlierEntries ==
    {j \in 1..entryIndex : libraryList[j].ID = event[1]}

\* C8 amended: an entry of the event with exactly one accepted file is
\* never listed; its file is played and the call ends there, so no link
\* follows the play; the links added before the play are those of the
\* earlier entries of the event, so none when there is no such entry.
C8_PlayEndsTheCall ==
    /\ JustListed => NumAccepted # 1
    /\ played # <<>> =>
          /\ pc = "done"
          /\ outcome = "raised"
          /\ err \in {"SystemExit", "NameError"}
          /\ \E p \in AcceptedPairs :
                AcceptedPairs = {p} /\ played = <<PathAt(p)>>
          /\ \A i \in 1..Len(listing) :
                \E j \in EarlierEntries : Under(listing[i].url, libraryList[j].path)
          /\ EarlierEntries = {} => listing = <<>>

\* the first of two entries of the event holds one accepted file: it is
\* played and nothing is listed
C8_Witness ==
    /\ played # <<>>
    /\ listing = <<>>
    /\ Len(libraryList) = 2
    /\ \A j \in 1..2 : libraryList[j].ID = event[1]
    /\ entryIndex = 0

=============================================================================
